---- MODULE Spec2Model ----
(***************************************************************************)
(* A model of metis-rs, a multilevel k-way graph partitioner:              *)
(*   graph.rs      CSR graph container and edge_cut                        *)
(*   coarsen.rs    heavy-edge matching, coarse graph, multilevel loop      *)
(*   partition.rs  greedy graph growing, recursive bisection               *)
(*   refine.rs     FM boundary refinement                                  *)
(*   kway.rs       the driver part_kway                                    *)
(* Rust Vecs are TLA+ sequences; At(s, i) reads the 0-based index i.       *)
(* Option<usize> is a sequence of length 0 (None) or 1 (Some).             *)
(***************************************************************************)
EXTENDS Integers, Sequences, FiniteSets, TLC

\* ------------------------------------------------------------------ bounds
MaxN == 4
MaxK == 3
MaxScheme == 5
MaxEdgeCode == 63
MaxPartCode == 26
MaxFmScheme == 2
MaxSeed == 2
MaxPasses == 2
BigN == 21
MaxShape == 3
MaxArgLen == 2
MaxRawCode == 1000
MaxRawScheme == 2
MaxThreshold == 2
BigK == 11

\* ------------------------------------------------------- program constants
COARSEN_THRESHOLD == 20
REFINE_PASSES == 10

\* ----------------------------------------------------------------- helpers
At(s, i) == s[i + 1]

Max2(a, b) == IF a >= b THEN a ELSE b

\* i64 `/`: truncates toward zero
RustDiv(a, b) == IF a >= 0 THEN a \div b ELSE 0 - ((0 - a) \div b)

\* f64 ceil of a / b for a >= 0, b > 0
CeilDiv(a, b) == (a + b - 1) \div b

\* the sum of f[lo], ..., f[hi - 1]
RECURSIVE SumRange(_, _, _)
SumRange(f, lo, hi) ==
  IF lo >= hi THEN 0
  ELSE IF hi = lo + 1 THEN f[lo]
  ELSE LET mid == (lo + hi) \div 2
       IN  SumRange(f, lo, mid) + SumRange(f, mid, hi)

\* `for i in lo..hi { st = body(st, i) }`: the state after the loop.  The range
\* is run as two halves, the first evaluated (half = half) before the second
\* starts, which keeps TLC's evaluation stack shallow on long loops.
RECURSIVE ForRange(_, _, _, _)
ForRange(body(_, _), st, lo, hi) ==
  IF lo >= hi THEN st
  ELSE IF hi = lo + 1 THEN body(st, lo)
  ELSE LET mid == (lo + hi) \div 2
           half == ForRange(body, st, lo, mid)
       IN  IF half = half THEN ForRange(body, half, mid, hi) ELSE half

Zeros(n) == [i \in 1 .. n |-> 0]

\* ---------------------------------------------------------- graph substrate
degree(gr, u) == At(gr.xadj, u + 1) - At(gr.xadj, u)

adj(gr, u, j) == At(gr.adjncy, At(gr.xadj, u) + j)

edge_weight(gr, u, j) ==
  IF gr.adjwgt = <<>> THEN 1 ELSE At(gr.adjwgt, At(gr.xadj, u) + j)

vertex_weight(gr, u) == IF gr.vwgt = <<>> THEN 1 ELSE At(gr.vwgt, u)

weighted_degree(gr, u) ==
  IF gr.adjwgt = <<>>
    THEN At(gr.xadj, u + 1) - At(gr.xadj, u)
    ELSE SumRange([i \in At(gr.xadj, u) .. (At(gr.xadj, u + 1) - 1) |-> At(gr.adjwgt, i)],
                  At(gr.xadj, u), At(gr.xadj, u + 1))

edge_cut(gr, p) ==
  LET row(u) == SumRange([j \in 0 .. (degree(gr, u) - 1) |->
                            IF At(p, u) # At(p, adj(gr, u, j))
                              THEN edge_weight(gr, u, j) ELSE 0],
                         0, degree(gr, u))
  IN  RustDiv(SumRange([u \in 0 .. (gr.n - 1) |-> row(u)], 0, gr.n), 2)

total_vertex_weight(gr) ==
  SumRange([u \in 0 .. (gr.n - 1) |-> vertex_weight(gr, u)], 0, gr.n)

\* ---------------------------------------------------------------- coarsener
\* match_scan with `w >= best_w`: the last heaviest neighbour wins ties
match_scan_last_wins(gr, matched, u, b, j) ==
  LET v == adj(gr, u, j)
      w == edge_weight(gr, u, j)
  IN  IF v \notin matched /\ v # u /\ w >= b.w THEN [v |-> <<v>>, w |-> w] ELSE b

\* one step of coarsen_once's inner loop over the entries j of u:
\* b = [v |-> best_v, w |-> best_w]
match_scan(gr, matched, u, b, j) ==
  LET v == adj(gr, u, j)
      w == edge_weight(gr, u, j)
  IN  IF v \notin matched /\ v # u /\ w > b.w THEN [v |-> <<v>>, w |-> w] ELSE b

\* best_v of u: its heaviest unmatched neighbour, the first one on ties
heaviest_unmatched(gr, matched, u) ==
  LET body(b, j) == match_scan(gr, matched, u, b, j)
  IN  ForRange(body, [v |-> <<>>, w |-> -1], 0, degree(gr, u)).v

\* one iteration of the loop `for u in 0..n` of coarsen_once
match_step(gr, st, u) ==
  IF u \in st.matched THEN st
  ELSE LET best_v == heaviest_unmatched(gr, st.matched, u)
       IN  IF best_v # <<>>
             THEN [matched |-> st.matched \cup {u, best_v[1]},
                   cmap |-> [st.cmap EXCEPT ![u + 1] = st.nc, ![best_v[1] + 1] = st.nc],
                   nc |-> st.nc + 1]
             ELSE [matched |-> st.matched \cup {u},
                   cmap |-> [st.cmap EXCEPT ![u + 1] = st.nc],
                   nc |-> st.nc + 1]

\* the heavy-edge matching of coarsen_once: [matched, cmap, nc] after the loop
matching(gr) ==
  LET body(st, u) == match_step(gr, st, u)
  IN  ForRange(body, [matched |-> {}, cmap |-> Zeros(gr.n), nc |-> 0], 0, gr.n)

\* cvwgt[cmap[u]] += vertex_weight(u), for u in 0..n
accumulate_cvwgt(gr, cmap, nc) ==
  LET body(cvwgt, u) == [cvwgt EXCEPT ![At(cmap, u) + 1] = @ + vertex_weight(gr, u)]
  IN  ForRange(body, Zeros(nc), 0, gr.n)

\* accumulate_entry with `=` in place of `+=`: the last fine entry overwrites
accumulate_entry_overwrite(gr, cmap, u, adj_map, j) ==
  LET cu == At(cmap, u)
      cv == At(cmap, adj(gr, u, j))
      w  == edge_weight(gr, u, j)
      m  == At(adj_map, cu)
  IN  IF cu # cv
        THEN [adj_map EXCEPT ![cu + 1] =
                IF cv \in DOMAIN m THEN [m EXCEPT ![cv] = w] ELSE (cv :> w) @@ m]
        ELSE adj_map

\* if cu != cv { *adj_map[cu].entry(cv).or_insert(0) += w } for entry j of u
accumulate_entry(gr, cmap, u, adj_map, j) ==
  LET cu == At(cmap, u)
      cv == At(cmap, adj(gr, u, j))
      w  == edge_weight(gr, u, j)
      m  == At(adj_map, cu)
  IN  IF cu # cv
        THEN [adj_map EXCEPT ![cu + 1] =
                IF cv \in DOMAIN m THEN [m EXCEPT ![cv] = @ + w] ELSE (cv :> w) @@ m]
        ELSE adj_map

\* the edge accumulation loops of build_coarse_graph: adj_map[cu] is a
\* function from neighbour ID to accumulated weight
accumulate_edges(gr, cmap, nc) ==
  LET row(adj_map, u) ==
        LET body(am, j) == accumulate_entry(gr, cmap, u, am, j)
        IN  ForRange(body, adj_map, 0, degree(gr, u))
  IN  ForRange(row, [c \in 1 .. nc |-> <<>>], 0, gr.n)

\* The hash of a key under a hasher seed: a HashMap iterates in an order the
\* seed decides.  Injective on keys below 67.
hash(key, seed) == ((key + 1) * (2 * seed + 3)) % 67

\* adj_map[cu].drain().collect(): the entries in the hasher's order
RECURSIVE drain(_, _)
drain(m, seed) ==
  IF DOMAIN m = {} THEN <<>>
  ELSE LET key == CHOOSE x \in DOMAIN m :
                    \A y \in DOMAIN m : hash(x, seed) <= hash(y, seed)
       IN  <<<<key, m[key]>>>> \o drain([x \in DOMAIN m \ {key} |-> m[x]], seed)

\* sort_by_key left out: the row keeps the order the map was drained in
sort_by_key_unsorted(pairs) == pairs

\* neighbors.sort_by_key(|&(v, _)| v), a stable sort: each pair goes behind
\* the pairs placed so far whose key is not greater
sort_by_key(pairs) ==
  LET insert(sorted, i) ==
        LET e == pairs[i + 1]
            pos == Cardinality({x \in 1 .. Len(sorted) : sorted[x][1] <= e[1]})
        IN  SubSeq(sorted, 1, pos) \o <<e>> \o SubSeq(sorted, pos + 1, Len(sorted))
  IN  ForRange(insert, <<>>, 0, Len(pairs))

\* one iteration of the CSR conversion loop `for cu in 0..nc`
emit_row(adj_map, seed, st, cu) ==
  LET neighbors == sort_by_key(drain(At(adj_map, cu), seed))
      adjncy == st.adjncy \o [i \in 1 .. Len(neighbors) |-> neighbors[i][1]]
      adjwgt == st.adjwgt \o [i \in 1 .. Len(neighbors) |-> neighbors[i][2]]
  IN  [xadj |-> [st.xadj EXCEPT ![cu + 2] = Len(adjncy)],
       adjncy |-> adjncy, adjwgt |-> adjwgt]

build_coarse_graph(gr, cmap, nc, seed) ==
  LET cvwgt == accumulate_cvwgt(gr, cmap, nc)
      adj_map == accumulate_edges(gr, cmap, nc)
      body(st, cu) == emit_row(adj_map, seed, st, cu)
      csr == ForRange(body, [xadj |-> Zeros(nc + 1), adjncy |-> <<>>, adjwgt |-> <<>>], 0, nc)
  IN  [n |-> nc, xadj |-> csr.xadj, adjncy |-> csr.adjncy,
       adjwgt |-> csr.adjwgt, vwgt |-> cvwgt]

coarsen_once(gr, seed) ==
  LET m == matching(gr)
  IN  [graph |-> build_coarse_graph(gr, m.cmap, m.nc, seed), cmap |-> m.cmap, nc |-> m.nc]

\* ------------------------------------------------------- initial partitioner
\* gain_to_part0 with the membership test inverted
gain_to_part1(gr, in_part0, u) ==
  SumRange([j \in 0 .. (degree(gr, u) - 1) |->
              IF adj(gr, u, j) \notin in_part0 THEN edge_weight(gr, u, j) ELSE 0],
           0, degree(gr, u))

\* gain of u in grow_bisection: weight of the entries of u whose end is in part 0
gain_to_part0(gr, in_part0, u) ==
  SumRange([j \in 0 .. (degree(gr, u) - 1) |->
              IF adj(gr, u, j) \in in_part0 THEN edge_weight(gr, u, j) ELSE 0],
           0, degree(gr, u))

\* one iteration of the candidate scan `for u in 0..n` of grow_bisection
growth_scan(gr, in_part0, b, u) ==
  IF u \in in_part0 THEN b
  ELSE LET gain == gain_to_part0(gr, in_part0, u)
       IN  IF gain > b.best_gain \/ (gain = b.best_gain /\ b.best_u = <<>>)
             THEN [best_u |-> <<u>>, best_gain |-> gain]
             ELSE b

best_growth(gr, in_part0) ==
  LET body(b, u) == growth_scan(gr, in_part0, b, u)
  IN  ForRange(body, [best_u |-> <<>>, best_gain |-> -1], 0, gr.n)

\* one iteration of the `loop` of grow_bisection; st.stop is set by a break
grow_step(gr, target, st) ==
  IF st.stop THEN st
  ELSE IF st.weight0 >= target THEN [st EXCEPT !.stop = TRUE]
  ELSE LET b == best_growth(gr, st.in_part0)
       IN  IF b.best_u # <<>> /\ (b.best_gain > 0 \/ st.weight0 < target)
             THEN LET u == b.best_u[1]
                  IN  [part |-> [st.part EXCEPT ![u + 1] = 0],
                       in_part0 |-> st.in_part0 \cup {u},
                       weight0 |-> st.weight0 + vertex_weight(gr, u),
                       stop |-> FALSE]
             ELSE [st EXCEPT !.stop = TRUE]

\* let target = total_weight / 2
grow_target(gr) == RustDiv(total_vertex_weight(gr), 2)

\* the locals of grow_bisection when its loop is entered: the seed is in part 0
grow_entry(gr, seed_v) ==
  [part |-> [[i \in 1 .. gr.n |-> 1] EXCEPT ![seed_v + 1] = 0],
   in_part0 |-> {seed_v},
   weight0 |-> vertex_weight(gr, seed_v),
   stop |-> FALSE]

\* grow_bisection: every iteration but the last moves one more vertex into
\* part 0, so the loop ends within n iterations
grow_state(gr, seed_v) ==
  LET body(st, i) == grow_step(gr, grow_target(gr), st)
  IN  ForRange(body, grow_entry(gr, seed_v), 0, gr.n)

grow_bisection(gr, seed_v) == grow_state(gr, seed_v).part

\* by_degree.sort_by(|a, b| wd(b).cmp(wd(a))) on 0..n: a stable sort, so each
\* vertex goes behind the vertices placed so far of no smaller weighted degree
by_degree(gr) ==
  LET insert(sorted, v) ==
        LET pos == Cardinality({x \in 1 .. Len(sorted) :
                                  weighted_degree(gr, sorted[x]) >= weighted_degree(gr, v)})
        IN  SubSeq(sorted, 1, pos) \o <<v>> \o SubSeq(sorted, pos + 1, Len(sorted))
  IN  ForRange(insert, <<>>, 0, gr.n)

\* an ascending sequence of the members of S: sort_unstable() then dedup()
RECURSIVE sorted_seq(_)
sorted_seq(S) ==
  IF S = {} THEN <<>>
  ELSE LET m == CHOOSE x \in S : \A y \in S : x <= y
       IN  <<m>> \o sorted_seq(S \ {m})

candidates(gr) ==
  LET bd == by_degree(gr)
      top == {bd[i] : i \in 1 .. (IF Len(bd) < 4 THEN Len(bd) ELSE 4)}
  IN  sorted_seq({0, gr.n \div 2, gr.n - 1} \cup top)

\* one iteration of the seed loop of initial_bisection; best_cut = <<>> stands
\* for i64::MAX
bisection_scan(gr, cands, b, i) ==
  LET p == grow_bisection(gr, cands[i + 1])
      c == edge_cut(gr, p)
  IN  IF b.best_cut = <<>> \/ c < b.best_cut[1]
        THEN [best_part |-> p, best_cut |-> <<c>>]
        ELSE b

initial_bisection(gr) ==
  IF gr.n = 0 THEN <<>>
  ELSE IF gr.n = 1 THEN <<0>>
  ELSE LET cands == candidates(gr)
           body(b, i) == bisection_scan(gr, cands, b, i)
       IN  ForRange(body, [best_part |-> Zeros(gr.n), best_cut |-> <<>>],
                    0, Len(cands)).best_part

\* one iteration of the vertex loop of build_subgraph: local_u = i
subgraph_row(gr, verts, st, i) ==
  LET gu == verts[i + 1]
      local(gv) == (CHOOSE l \in 1 .. Len(verts) : verts[l] = gv) - 1
      kept == SelectSeq([j \in 1 .. degree(gr, gu) |-> j - 1],
                        LAMBDA j : \E l \in 1 .. Len(verts) : verts[l] = adj(gr, gu, j))
      adjncy == st.adjncy \o [x \in 1 .. Len(kept) |-> local(adj(gr, gu, kept[x]))]
      adjwgt == st.adjwgt \o [x \in 1 .. Len(kept) |-> edge_weight(gr, gu, kept[x])]
  IN  [xadj |-> [st.xadj EXCEPT ![i + 2] = Len(adjncy)],
       adjncy |-> adjncy, adjwgt |-> adjwgt,
       vwgt |-> Append(st.vwgt, vertex_weight(gr, gu))]

build_subgraph(gr, verts) ==
  IF Len(verts) = 0
    THEN [n |-> 0, xadj |-> <<0>>, adjncy |-> <<>>, adjwgt |-> <<>>, vwgt |-> <<>>]
    ELSE LET body(st, i) == subgraph_row(gr, verts, st, i)
             sub == ForRange(body,
                      [xadj |-> Zeros(Len(verts) + 1), adjncy |-> <<>>,
                       adjwgt |-> <<>>, vwgt |-> <<>>], 0, Len(verts))
         IN  [n |-> Len(verts), xadj |-> sub.xadj, adjncy |-> sub.adjncy,
              adjwgt |-> sub.adjwgt, vwgt |-> sub.vwgt]

\* positions (as vertex IDs) of the entries of bisect equal to side
side_verts(bisect, side) ==
  SelectSeq([i \in 1 .. Len(bisect) |-> i - 1], LAMBDA u : At(bisect, u) = side)

\* map_back with the labels of the sub-partition shifted one too far
map_back_shifted(p, verts, sub_part, offset) ==
  LET body(q, i) == [q EXCEPT ![verts[i + 1] + 1] = offset + sub_part[i + 1] + 1]
  IN  ForRange(body, p, 0, Len(verts))

\* part[global_v] = offset + sub_part[local_idx] for every local_idx
map_back(p, verts, sub_part, offset) ==
  LET body(q, i) == [q EXCEPT ![verts[i + 1] + 1] = offset + sub_part[i + 1]]
  IN  ForRange(body, p, 0, Len(verts))

RECURSIVE initial_partition(_, _)
initial_partition(gr, np) ==
  IF np <= 1 \/ gr.n = 0 THEN Zeros(gr.n)
  ELSE LET bisect == initial_bisection(gr)
       IN  IF np = 2 THEN bisect
           ELSE LET left_parts == np \div 2
                    right_parts == np - left_parts
                    left_verts == side_verts(bisect, 0)
                    right_verts == side_verts(bisect, 1)
                    left_part == initial_partition(build_subgraph(gr, left_verts), left_parts)
                    right_part == initial_partition(build_subgraph(gr, right_verts), right_parts)
                IN  map_back(map_back(Zeros(gr.n), left_verts, left_part, 0),
                             right_verts, right_part, left_parts)

\* ------------------------------------------------------------------ refiner
\* int of u: weight of the entries of u whose end lies in u's own part
int_weight(gr, p, u) ==
  SumRange([j \in 0 .. (degree(gr, u) - 1) |->
              IF At(p, adj(gr, u, j)) = At(p, u) THEN edge_weight(gr, u, j) ELSE 0],
           0, degree(gr, u))

\* ext[t] of u: weight of the entries of u whose end lies in part t # part[u]
ext_weight(gr, p, u, t) ==
  SumRange([j \in 0 .. (degree(gr, u) - 1) |->
              IF At(p, adj(gr, u, j)) = t /\ t # At(p, u)
                THEN edge_weight(gr, u, j) ELSE 0],
           0, degree(gr, u))

is_boundary(gr, p, np, u) == \E t \in 0 .. (np - 1) : ext_weight(gr, p, u, t) > 0

\* part_weight[part[u]] += vertex_weight(u), for u in 0..n
part_weights(gr, p, np) ==
  LET body(pw, u) == [pw EXCEPT ![At(p, u) + 1] = @ + vertex_weight(gr, u)]
  IN  ForRange(body, Zeros(np), 0, gr.n)

\* (total_weight as f64 * MAX_IMBALANCE / nparts as f64).ceil() as i64 with
\* MAX_IMBALANCE = 1.05: for the weights of this model (and every total below
\* 200000 with up to 59 parts) the f64 result is ceil(21 * total / (20 * nparts))
max_part_weight_of(total_weight, np) == CeilDiv(21 * total_weight, 20 * np)

\* target_scan with the gain taken as ext[to] alone
target_scan_ext_only(c, u, best, to) ==
  IF \/ to = At(c.part, u)
     \/ ext_weight(c.g, c.part, u, to) = 0
     \/ At(c.part_weight, to) + vertex_weight(c.g, u) > c.max_part_weight
    THEN best
  ELSE LET gain == ext_weight(c.g, c.part, u, to)
       IN  IF best.u = <<>> \/ gain > best.gain
             THEN [u |-> <<u>>, to |-> to, gain |-> gain]
             ELSE best

\* target_scan with the balance check on the target's weight before the move
target_scan_no_vw(c, u, best, to) ==
  IF \/ to = At(c.part, u)
     \/ ext_weight(c.g, c.part, u, to) = 0
     \/ At(c.part_weight, to) > c.max_part_weight
    THEN best
  ELSE LET gain == ext_weight(c.g, c.part, u, to) - int_weight(c.g, c.part, u)
       IN  IF best.u = <<>> \/ gain > best.gain
             THEN [u |-> <<u>>, to |-> to, gain |-> gain]
             ELSE best

\* target_scan with `gain >= best_gain`: the last of equal candidates wins
target_scan_last_tie(c, u, best, to) ==
  IF \/ to = At(c.part, u)
     \/ ext_weight(c.g, c.part, u, to) = 0
     \/ At(c.part_weight, to) + vertex_weight(c.g, u) > c.max_part_weight
    THEN best
  ELSE LET gain == ext_weight(c.g, c.part, u, to) - int_weight(c.g, c.part, u)
       IN  IF best.u = <<>> \/ gain >= best.gain
             THEN [u |-> <<u>>, to |-> to, gain |-> gain]
             ELSE best

\* one iteration of `for to in 0..nparts` of fm_pass for the vertex u.
\* best.u = <<>> stands for best_u = None with best_gain = i64::MIN
target_scan(c, u, best, to) ==
  IF \/ to = At(c.part, u)
     \/ ext_weight(c.g, c.part, u, to) = 0
     \/ At(c.part_weight, to) + vertex_weight(c.g, u) > c.max_part_weight
    THEN best
  ELSE LET gain == ext_weight(c.g, c.part, u, to) - int_weight(c.g, c.part, u)
       IN  IF best.u = <<>> \/ gain > best.gain
             THEN [u |-> <<u>>, to |-> to, gain |-> gain]
             ELSE best

\* one iteration of `for u in 0..n` of fm_pass's candidate scan
vertex_scan(c, best, u) ==
  IF u \in c.locked \/ ~is_boundary(c.g, c.part, c.nparts, u) THEN best
  ELSE LET body(b, to) == target_scan(c, u, b, to)
       IN  ForRange(body, best, 0, c.nparts)

\* the candidate scan of one fm_pass iteration: [u |-> best_u, to |-> best_to,
\* gain |-> best_gain]
best_move(c) ==
  LET body(b, u) == vertex_scan(c, b, u)
  IN  ForRange(body, [u |-> <<>>, to |-> 0, gain |-> 0], 0, c.g.n)

\* ------------------------------------------------------------- input graphs
\* scheme s picks the edge weights, the vertex weights and the neighbour order
edge_scheme(s) == (s \div 2) % 3
vertex_scheme(s) == s % 4
reversed(s) == (s \div 3) % 2 = 1

\* weight of the undirected edge {u, v} (u < v); scheme 0 leaves adjwgt empty
pair_weight(s, u, v) ==
  IF edge_scheme(s) = 1 THEN 1 + ((u + v) % 2) ELSE (u * v + u + v) % 3

scheme_vwgt(s, n) ==
  IF vertex_scheme(s) = 0 THEN <<>>
  ELSE [i \in 1 .. n |->
          IF vertex_scheme(s) = 1 THEN 1 + ((i - 1) % 2)
          ELSE IF vertex_scheme(s) = 2 THEN (IF i = n THEN 4 * n ELSE 1)
          ELSE (IF i = 1 THEN Max2(1, n - 1) ELSE 1)]

Pairs(n) == {e \in (0 .. (n - 1)) \X (0 .. (n - 1)) : e[1] < e[2]}

\* the neighbours of u under the undirected edge set E, in list order
neighbour_list(n, E, s, u) ==
  LET asc == SelectSeq([i \in 1 .. n |-> i - 1],
                       LAMBDA v : <<u, v>> \in E \/ <<v, u>> \in E)
  IN  IF reversed(s) THEN [i \in 1 .. Len(asc) |-> asc[Len(asc) + 1 - i]] ELSE asc

\* the CSR graph of the undirected simple graph (0..n, E) under scheme s
sym_graph(n, E, s) ==
  LET row(st, u) ==
        LET nb == neighbour_list(n, E, s, u)
            ws == [i \in 1 .. Len(nb) |->
                     pair_weight(s, IF u < nb[i] THEN u ELSE nb[i],
                                    IF u < nb[i] THEN nb[i] ELSE u)]
        IN  [xadj |-> Append(st.xadj, Len(st.adjncy) + Len(nb)),
             adjncy |-> st.adjncy \o nb, adjwgt |-> st.adjwgt \o ws]
      csr == ForRange(row, [xadj |-> <<0>>, adjncy |-> <<>>, adjwgt |-> <<>>], 0, n)
  IN  [n |-> n, xadj |-> csr.xadj, adjncy |-> csr.adjncy,
       adjwgt |-> IF edge_scheme(s) = 0 THEN <<>> ELSE csr.adjwgt,
       vwgt |-> scheme_vwgt(s, n)]

Schemes == 0 .. MaxScheme

RECURSIVE pow(_, _)
pow(b, e) == IF e = 0 THEN 1 ELSE b * pow(b, e - 1)

\* the undirected edge set on 0..n with code c: the pair {u, v}, u < v, is bit
\* v(v-1)/2 + u of c, so the codes below 2^(n(n-1)/2) are all simple graphs
edge_set(n, c) ==
  {e \in Pairs(n) : (c \div pow(2, (e[2] * (e[2] - 1)) \div 2 + e[1])) % 2 = 1}

edge_codes(n) == {c \in 0 .. MaxEdgeCode : c < pow(2, (n * (n - 1)) \div 2)}

small_graphs(schemes) ==
  {sym_graph(t[1], edge_set(t[1], t[2]), t[3]) : t \in
     UNION {{<<n, c, s>> : c \in edge_codes(n), s \in schemes} : n \in 0 .. MaxN}}

SmallGraphs == small_graphs(Schemes)

\* shapes on n vertices: path, cycle, two paths, no edge, band
shape_edges(sh, n) ==
  LET path == {e \in Pairs(n) : e[2] = e[1] + 1}
  IN  IF sh = 0 THEN path
      ELSE IF sh = 1 THEN path \cup {<<0, n - 1>>}
      ELSE IF sh = 2 THEN path \ {<<(n \div 2) - 1, n \div 2>>}
      ELSE IF sh = 3 THEN {}
      ELSE {e \in Pairs(n) : e[2] <= e[1] + 2}

BigGraphs ==
  {sym_graph(n, shape_edges(sh, n), s) :
     n \in {BigN, 2 * BigN}, sh \in 0 .. MaxShape, s \in Schemes}

EmptyGraph == [n |-> 0, xadj |-> <<0>>, adjncy |-> <<>>, adjwgt |-> <<>>, vwgt |-> <<>>]

\* -------------------------------------------------------------------- state
VARIABLES
  pc,               \* the point the call has reached
  g, nparts,        \* the arguments: the graph and the number of parts
  threshold,        \* multilevel_coarsen's threshold
  current, levels,  \* multilevel_coarsen's current graph and level stack
  fine,             \* the graph fm_refine works on
  part,             \* the partition vector (current_part / fine_part / result)
  lvl,              \* levels still to project through in part_kway
  max_passes, pass, \* fm_refine's pass budget and pass counter
  iter, part_weight, max_part_weight, locked, improved,   \* fm_pass's locals
  cut,              \* the returned edge cut
  part_in,          \* history: the partition fm_refine was called with
  grow              \* grow_bisection's locals: part, in_part0, weight0

vars == <<pc, g, nparts, threshold, current, levels, fine, part, lvl, max_passes,
          pass, iter, part_weight, max_part_weight, locked, improved, cut, part_in,
          grow>>

coarsen_vars == <<threshold, current, levels>>
pass_vars == <<iter, part_weight, max_part_weight, locked, improved>>
fm_vars == <<max_passes, pass, iter, part_weight, max_part_weight, locked, improved, part_in>>

Blank ==
  /\ threshold = 0 /\ current = EmptyGraph /\ levels = <<>>
  /\ fine = EmptyGraph /\ part = <<>> /\ lvl = 0
  /\ max_passes = 0 /\ pass = 0 /\ iter = 0 /\ part_weight = <<>>
  /\ max_part_weight = 0 /\ locked = {} /\ improved = FALSE
  /\ cut = 0 /\ part_in = <<>> /\ grow = <<>>

\* partition(g, nparts) is called
Init ==
  /\ pc = "part_kway"
  /\ g \in SmallGraphs \cup BigGraphs
  /\ nparts \in 0 .. MaxK
  /\ Blank

\* ------------------------------------------------------------ part_kway
Return(c, p) ==
  /\ pc' = "done" /\ cut' = c /\ part' = p
  /\ UNCHANGED <<g, nparts, grow, coarsen_vars, fine, lvl, fm_vars>>

\* if g.n == 0 { return (0, Vec::new()) }
ReturnEmpty ==
  /\ pc = "part_kway" /\ g.n = 0
  /\ Return(0, <<>>)

\* ReturnOnePart with a vector of nparts zeros in place of g.n zeros
ReturnOnePart_PerPart ==
  /\ pc = "part_kway" /\ g.n # 0 /\ nparts <= 1
  /\ Return(0, Zeros(nparts))

\* if nparts <= 1 { return (0, vec![0; g.n]) }
ReturnOnePart ==
  /\ pc = "part_kway" /\ g.n # 0 /\ nparts <= 1
  /\ Return(0, Zeros(g.n))

\* if g.n <= nparts { part = (0..g.n).collect(); return (g.edge_cut(&part), part) }
ReturnIdentity ==
  /\ pc = "part_kway" /\ g.n # 0 /\ nparts > 1 /\ g.n <= nparts
  /\ LET p == [i \in 1 .. g.n |-> i - 1] IN Return(edge_cut(g, p), p)

\* BeginCoarsen with the threshold fixed at COARSEN_THRESHOLD
BeginCoarsen_FixedThreshold ==
  /\ pc = "part_kway" /\ g.n # 0 /\ nparts > 1 /\ g.n > nparts
  /\ pc' = "multilevel_coarsen"
  /\ threshold' = COARSEN_THRESHOLD
  /\ current' = g /\ levels' = <<>>
  /\ UNCHANGED <<g, nparts, grow, fine, part, lvl, fm_vars, cut>>

\* multilevel_coarsen(g, COARSEN_THRESHOLD.max(nparts * 2)) is entered
BeginCoarsen ==
  /\ pc = "part_kway" /\ g.n # 0 /\ nparts > 1 /\ g.n > nparts
  /\ pc' = "multilevel_coarsen"
  /\ threshold' = Max2(COARSEN_THRESHOLD, nparts * 2)
  /\ current' = g /\ levels' = <<>>
  /\ UNCHANGED <<g, nparts, grow, fine, part, lvl, fm_vars, cut>>

\* ---------------------------------------------------- multilevel_coarsen
\* one iteration of the while loop that pushes a level; the hasher seed of the
\* HashMaps of build_coarse_graph is free
CoarsenStep ==
  /\ pc = "multilevel_coarsen" /\ current.n > threshold
  /\ \E seed \in 0 .. MaxSeed :
       LET level == coarsen_once(current, seed)
       IN  /\ level.nc < current.n
           /\ current' = level.graph
           /\ levels' = Append(levels, level)
  /\ UNCHANGED <<pc, g, nparts, grow, threshold, fine, part, lvl, fm_vars, cut>>

\* if level.nc >= current.n { break }
CoarsenStall(after) ==
  /\ pc = "multilevel_coarsen" /\ current.n > threshold
  /\ \E seed \in 0 .. MaxSeed : coarsen_once(current, seed).nc >= current.n
  /\ pc' = after
  /\ UNCHANGED <<g, nparts, grow, coarsen_vars, fine, part, lvl, fm_vars, cut>>

\* the while condition current.n > threshold fails
CoarsenExit(after) ==
  /\ pc = "multilevel_coarsen" /\ current.n <= threshold
  /\ pc' = after
  /\ UNCHANGED <<g, nparts, grow, coarsen_vars, fine, part, lvl, fm_vars, cut>>

\* Phase 2: initial_partition of the coarsest graph, then fm_refine is called
InitialPartition ==
  /\ pc = "initial_partition"
  /\ LET coarsest == IF levels = <<>> THEN g ELSE levels[Len(levels)].graph
     IN  /\ fine' = coarsest
         /\ part' = initial_partition(coarsest, nparts)
  /\ lvl' = Len(levels)
  /\ max_passes' = REFINE_PASSES
  /\ pc' = "fm_refine"
  /\ UNCHANGED <<g, nparts, grow, coarsen_vars, pass, pass_vars, part_in, cut>>

\* ------------------------------------------------------------- fm_refine
\* entry: if g.n == 0 || nparts <= 1 { return }
FmRefine ==
  /\ pc = "fm_refine"
  /\ part_in' = part
  /\ pass' = 0
  /\ pc' = IF fine.n = 0 \/ nparts <= 1 THEN "fm_return" ELSE "fm_loop"
  /\ UNCHANGED <<g, nparts, grow, coarsen_vars, fine, part, lvl, max_passes, pass_vars, cut>>

\* for _pass in 0..max_passes: the next fm_pass begins, or the passes are used up
FmLoop ==
  /\ pc = "fm_loop"
  /\ IF pass < max_passes
       THEN /\ pc' = "fm_pass"
            /\ part_weight' = part_weights(fine, part, nparts)
            /\ max_part_weight' = max_part_weight_of(total_vertex_weight(fine), nparts)
            /\ locked' = {} /\ iter' = 0 /\ improved' = FALSE
       ELSE /\ pc' = "fm_return"
            /\ UNCHANGED pass_vars
  /\ UNCHANGED <<g, nparts, grow, coarsen_vars, fine, part, lvl, max_passes, pass, part_in, cut>>

pass_context ==
  [g |-> fine, part |-> part, nparts |-> nparts, part_weight |-> part_weight,
   max_part_weight |-> max_part_weight, locked |-> locked]

selected_move == best_move(pass_context)

profitable(b) == b.u # <<>> /\ b.gain > 0

\* Some(u) if best_gain > 0: the move is committed
FmMove ==
  /\ pc = "fm_pass" /\ iter < fine.n
  /\ LET b == selected_move
     IN  /\ profitable(b)
         /\ LET u == b.u[1]
                from == At(part, u)
                vw == vertex_weight(fine, u)
            IN  /\ part_weight' = [[part_weight EXCEPT ![from + 1] = @ - vw]
                                     EXCEPT ![b.to + 1] = @ + vw]
                /\ part' = [part EXCEPT ![u + 1] = b.to]
                /\ locked' = locked \cup {u}
  /\ improved' = TRUE
  /\ iter' = iter + 1
  /\ UNCHANGED <<pc, g, nparts, grow, coarsen_vars, fine, lvl, max_passes, pass,
                 max_part_weight, part_in, cut>>

\* the pass ends (break, or n iterations done) and fm_refine's loop goes on
\* if the pass improved
FmPassEnd ==
  /\ pc = "fm_pass"
  /\ iter >= fine.n \/ ~profitable(selected_move)
  /\ pc' = IF improved THEN "fm_loop" ELSE "fm_return"
  /\ pass' = pass + 1
  /\ UNCHANGED <<g, nparts, grow, coarsen_vars, fine, part, lvl, max_passes, pass_vars,
                 part_in, cut>>

\* ------------------------------------------------- part_kway, Phase 3
\* Uncoarsen with the coarse partition copied by index, cmap left out
Uncoarsen_Unprojected ==
  /\ pc = "fm_return" /\ lvl > 0
  /\ LET fine_graph == IF lvl - 1 = 0 THEN g ELSE levels[lvl - 1].graph
     IN  /\ fine' = fine_graph
         /\ part' = [i \in 1 .. fine_graph.n |-> IF i <= Len(part) THEN part[i] ELSE 0]
  /\ lvl' = lvl - 1
  /\ pc' = "fm_refine"
  /\ UNCHANGED <<g, nparts, grow, coarsen_vars, fm_vars, cut>>

\* one iteration of `for (i, level) in levels.iter().enumerate().rev()` up to
\* the call of fm_refine; i = lvl - 1
Uncoarsen ==
  /\ pc = "fm_return" /\ lvl > 0
  /\ LET fine_graph == IF lvl - 1 = 0 THEN g ELSE levels[lvl - 1].graph
         cmap == levels[lvl].cmap
     IN  /\ fine' = fine_graph
         /\ part' = [i \in 1 .. fine_graph.n |-> At(part, At(cmap, i - 1))]
  /\ lvl' = lvl - 1
  /\ pc' = "fm_refine"
  /\ UNCHANGED <<g, nparts, grow, coarsen_vars, fm_vars, cut>>

\* Finish with the cut taken before the last refinement
Finish_StaleCut ==
  /\ pc = "fm_return" /\ lvl = 0
  /\ pc' = "done"
  /\ cut' = edge_cut(g, part_in)
  /\ UNCHANGED <<g, nparts, grow, coarsen_vars, fine, part, lvl, fm_vars>>

\* let cut = g.edge_cut(&current_part); (cut, current_part)
Finish ==
  /\ pc = "fm_return" /\ lvl = 0
  /\ pc' = "done"
  /\ cut' = edge_cut(g, part)
  /\ UNCHANGED <<g, nparts, grow, coarsen_vars, fine, part, lvl, fm_vars>>

Next ==
  \/ ReturnEmpty
  \/ ReturnOnePart
  \/ ReturnIdentity
  \/ BeginCoarsen
  \/ CoarsenStep
  \/ CoarsenStall("initial_partition")
  \/ CoarsenExit("initial_partition")
  \/ InitialPartition
  \/ FmRefine
  \/ FmLoop
  \/ FmMove
  \/ FmPassEnd
  \/ Uncoarsen
  \/ Finish

Spec == Init /\ [][Next]_vars

\* partition(g, nparts) is called, also with so many parts that 2 * nparts
\* exceeds COARSEN_THRESHOLD
InitManyParts ==
  /\ pc = "part_kway"
  /\ g \in SmallGraphs \cup BigGraphs
  /\ nparts \in (0 .. MaxK) \cup {BigK}
  /\ Blank

SpecManyParts == InitManyParts /\ [][Next]_vars

\* ---------------------------------------------- grow_bisection called alone
\* the graph gr with every edge weight negated
negated(gr) == [gr EXCEPT !.adjwgt = [i \in 1 .. Len(gr.adjwgt) |-> 0 - gr.adjwgt[i]]]

GrowGraphs ==
  LET G == {gr \in SmallGraphs : gr.n >= 1}
  IN  G \cup {negated(gr) : gr \in G}

\* grow_bisection(g, seed) is entered: the part of the function before `loop`
GrowBegin ==
  /\ pc = "grow_bisection"
  /\ \E seed_v \in 0 .. (g.n - 1) : grow' = grow_entry(g, seed_v)
  /\ pc' = "grow_loop"
  /\ UNCHANGED <<g, nparts, coarsen_vars, fine, part, lvl, fm_vars, cut>>

\* one iteration of `loop` that moves a vertex into part 0
GrowMove ==
  /\ pc = "grow_loop"
  /\ LET st == grow_step(g, grow_target(g), grow)
     IN  /\ ~st.stop
         /\ grow' = st
  /\ UNCHANGED <<pc, g, nparts, coarsen_vars, fine, part, lvl, fm_vars, cut>>

\* the iteration that breaks; grow_bisection returns part
GrowReturn ==
  /\ pc = "grow_loop"
  /\ LET st == grow_step(g, grow_target(g), grow)
     IN  /\ st.stop
         /\ grow' = st
         /\ part' = st.part
  /\ pc' = "grow_return"
  /\ UNCHANGED <<g, nparts, coarsen_vars, fine, lvl, fm_vars, cut>>

InitGrow ==
  /\ pc = "grow_bisection"
  /\ g \in GrowGraphs
  /\ nparts = 2
  /\ Blank

NextGrow ==
  \/ GrowBegin
  \/ GrowMove
  \/ GrowReturn

SpecGrow == InitGrow /\ [][NextGrow]_vars

\* ------------------------------------------------- fm_refine called alone
\* the partition of 0..n into np parts with code c: part[u] is digit u of c in
\* base np, so the codes below np^n are all partitions
coded_partition(n, np, c) == [i \in 1 .. n |-> (c \div pow(np, i - 1)) % np]

partition_codes(n, np) == {c \in 0 .. MaxPartCode : c < pow(np, n)}

\* fm_refine(g, part, nparts, max_passes) is called
InitFM ==
  /\ pc = "fm_refine"
  /\ g \in small_graphs(0 .. MaxFmScheme)
  /\ fine = g
  /\ nparts \in 1 .. MaxK
  /\ part \in {coded_partition(g.n, nparts, c) : c \in partition_codes(g.n, nparts)}
  /\ max_passes \in 0 .. MaxPasses
  /\ threshold = 0 /\ current = EmptyGraph /\ levels = <<>> /\ lvl = 0
  /\ pass = 0 /\ iter = 0 /\ part_weight = <<>> /\ max_part_weight = 0
  /\ locked = {} /\ improved = FALSE /\ cut = 0 /\ part_in = <<>> /\ grow = <<>>

\* fm_refine returns to its caller
FmReturn ==
  /\ pc = "fm_return"
  /\ pc' = "done"
  /\ UNCHANGED <<g, nparts, grow, coarsen_vars, fine, part, lvl, fm_vars, cut>>

NextFM ==
  \/ FmRefine
  \/ FmLoop
  \/ FmMove
  \/ FmPassEnd
  \/ FmReturn

SpecFM == InitFM /\ [][NextFM]_vars

\* ------------------------------------------- multilevel_coarsen called alone
\* the neighbour lists of at most two entries on n vertices, numbered by d
list_count(n) == 1 + n + n * n

coded_list(n, d) ==
  IF d = 0 THEN <<>>
  ELSE IF d <= n THEN <<d - 1>>
  ELSE <<(d - n - 1) \div n, (d - n - 1) % n>>

\* the weight of entry i of adjncy under weight scheme s; scheme 0 leaves
\* adjwgt empty
coded_weight(s, i) == IF s = 1 THEN 1 + ((i \div 2) % 2) ELSE (2 * i + 1) % 3

\* the CSR graph on n vertices whose vertex u has the list with number digit u
\* of c in base list_count(n): self-loops, repeated entries and edges listed
\* on one side only all occur
raw_graph(n, c, s) ==
  LET row(st, u) ==
        LET nb == coded_list(n, (c \div pow(list_count(n), u)) % list_count(n))
        IN  [xadj |-> Append(st.xadj, Len(st.adjncy) + Len(nb)),
             adjncy |-> st.adjncy \o nb]
      csr == ForRange(row, [xadj |-> <<0>>, adjncy |-> <<>>], 0, n)
  IN  [n |-> n, xadj |-> csr.xadj, adjncy |-> csr.adjncy,
       adjwgt |-> IF s = 0 THEN <<>>
                  ELSE [i \in 1 .. Len(csr.adjncy) |-> coded_weight(s, i)],
       vwgt |-> <<>>]

raw_codes(n) == {c \in 0 .. MaxRawCode : c < pow(list_count(n), n)}

RawGraphs ==
  {raw_graph(t[1], t[2], t[3]) : t \in
     UNION {{<<n, c, s>> : c \in raw_codes(n), s \in 0 .. MaxRawScheme} : n \in 0 .. MaxN}}

\* multilevel_coarsen(g, threshold) is called
InitCoarsen ==
  /\ pc = "multilevel_coarsen"
  /\ g \in RawGraphs
  /\ current = g
  /\ threshold \in 0 .. MaxThreshold
  /\ nparts = 0 /\ levels = <<>>
  /\ fine = EmptyGraph /\ part = <<>> /\ lvl = 0
  /\ max_passes = 0 /\ pass = 0 /\ iter = 0 /\ part_weight = <<>>
  /\ max_part_weight = 0 /\ locked = {} /\ improved = FALSE
  /\ cut = 0 /\ part_in = <<>> /\ grow = <<>>

NextCoarsen ==
  \/ CoarsenStep
  \/ CoarsenStall("coarsen_return")
  \/ CoarsenExit("coarsen_return")

SpecCoarsen == InitCoarsen /\ [][NextCoarsen]_vars

\* ------------------------------------------------------ Graph construction
\* the Vecs of at most len elements of S
vecs(S, len) == UNION {[1 .. k -> S] : k \in 0 .. len}

\* Graph::new(n, xadj, adjncy): assert_eq!(xadj.len(), n + 1), then the fields
\* are filled in and both weight arrays are left empty
GraphNew ==
  /\ pc = "caller"
  /\ \E n \in 0 .. MaxArgLen, xadj \in vecs(0 .. MaxArgLen, MaxArgLen + 1),
        adjncy \in vecs(0 .. 1, MaxArgLen) :
       IF Len(xadj) = n + 1
         THEN /\ pc' = "Graph"
              /\ g' = [n |-> n, xadj |-> xadj, adjncy |-> adjncy,
                       adjwgt |-> <<>>, vwgt |-> <<>>]
         ELSE /\ pc' = "panic"
              /\ g' = g
  /\ UNCHANGED <<nparts, grow, coarsen_vars, fine, part, lvl, fm_vars, cut>>

\* self.with_adjwgt(adjwgt): assert_eq!(adjwgt.len(), self.adjncy.len())
WithAdjwgt ==
  /\ pc = "Graph"
  /\ \E adjwgt \in vecs({1}, MaxArgLen) :
       IF Len(adjwgt) = Len(g.adjncy)
         THEN /\ pc' = "Graph"
              /\ g' = [g EXCEPT !.adjwgt = adjwgt]
         ELSE /\ pc' = "panic"
              /\ g' = EmptyGraph
  /\ UNCHANGED <<nparts, grow, coarsen_vars, fine, part, lvl, fm_vars, cut>>

\* self.with_vwgt(vwgt): assert_eq!(vwgt.len(), self.n)
WithVwgt ==
  /\ pc = "Graph"
  /\ \E vwgt \in vecs({1}, MaxArgLen) :
       IF Len(vwgt) = g.n
         THEN /\ pc' = "Graph"
              /\ g' = [g EXCEPT !.vwgt = vwgt]
         ELSE /\ pc' = "panic"
              /\ g' = EmptyGraph
  /\ UNCHANGED <<nparts, grow, coarsen_vars, fine, part, lvl, fm_vars, cut>>

\* a caller about to build a Graph
InitGraph ==
  /\ pc = "caller"
  /\ g = EmptyGraph
  /\ nparts = 0
  /\ Blank

NextGraph ==
  \/ GraphNew
  \/ WithAdjwgt
  \/ WithVwgt

SpecGraph == InitGraph /\ [][NextGraph]_vars

\* ------------------------------------------------------------------- claims
Done == pc = "done"

parts_used(p) == {p[i] : i \in 1 .. Len(p)}

\* C1: for k >= 1 the assignment partition(G, k) returns has length n and every
\* entry is a part ID below k, on the trivial, the uncoarsened and the
\* multilevel path alike
C1_AssignmentInRange ==
  (Done /\ nparts >= 1) =>
     /\ Len(part) = g.n
     /\ \A u \in 0 .. (g.n - 1) : At(part, u) \in 0 .. (nparts - 1)

C1_Witness ==
  /\ Done /\ nparts = 3 /\ Len(levels) >= 2
  /\ parts_used(part) = {0, 1, 2}

\* C2: when n >= k >= 1 the returned assignment uses every part ID in 0..k
C2_EveryPartUsed ==
  (Done /\ nparts >= 1 /\ g.n >= nparts) => parts_used(part) = 0 .. (nparts - 1)

\* C3: the returned cut is G.edge_cut of the returned assignment on the
\* original graph, early returns included, and it is not negative
C3_CutIsEdgeCut ==
  Done => (cut = edge_cut(g, part) /\ cut >= 0)

C3_Witness ==
  Done /\ levels # <<>> /\ cut > 0

trivial_input == g.n = 0 \/ nparts <= 1 \/ g.n <= nparts

\* C8: trivial inputs return at once, never entering the multilevel algorithm
\* and never failing: n = 0 gives (0, []); else k <= 1 gives cut 0 and all
\* zeros; else n <= k gives part[u] = u with the edge cut of that assignment
C8_TrivialInputs ==
  /\ trivial_input => pc \in {"part_kway", "done"}
  /\ (trivial_input /\ pc = "part_kway") => ENABLED Next
  /\ (Done /\ g.n = 0) => (cut = 0 /\ part = <<>>)
  /\ (Done /\ g.n # 0 /\ nparts <= 1) => (cut = 0 /\ part = Zeros(g.n))
  /\ (Done /\ g.n # 0 /\ nparts > 1 /\ g.n <= nparts) =>
        /\ part = [i \in 1 .. g.n |-> i - 1]
        /\ cut = edge_cut(g, part)

C8_Witness ==
  Done /\ g.n = 3 /\ nparts = 3 /\ cut > 0 /\ part = <<0, 1, 2>>

\* the vertices reachable from the set S
RECURSIVE closure(_, _)
closure(gr, S) ==
  LET T == S \cup {adj(gr, u, j) : <<u, j>> \in
                     {e \in S \X (0 .. gr.n) : e[2] < degree(gr, e[1])}}
  IN  IF T = S THEN S ELSE closure(gr, T)

\* the connected components among the vertices of rest, lowest vertex first
RECURSIVE components_of(_, _)
components_of(gr, rest) ==
  IF rest = {} THEN {}
  ELSE LET c == closure(gr, {CHOOSE x \in rest : \A y \in rest : x <= y})
       IN  {c} \cup components_of(gr, rest \ c)

components(gr) == components_of(gr, 0 .. (gr.n - 1))

set_weight(gr, S) ==
  SumRange([u \in 0 .. (gr.n - 1) |-> IF u \in S THEN vertex_weight(gr, u) ELSE 0], 0, gr.n)

\* weight and number of the entries u -> v
entries_weight(gr, u, v) ==
  SumRange([j \in 0 .. (degree(gr, u) - 1) |->
              IF adj(gr, u, j) = v THEN edge_weight(gr, u, j) ELSE 0], 0, degree(gr, u))

entries_count(gr, u, v) ==
  Cardinality({j \in 0 .. (degree(gr, u) - 1) : adj(gr, u, j) = v})

\* the symmetric-edge convention: u -> v is listed as often and as heavy as v -> u
symmetric(gr) ==
  \A u, v \in 0 .. (gr.n - 1) :
     /\ entries_count(gr, u, v) = entries_count(gr, v, u)
     /\ entries_weight(gr, u, v) = entries_weight(gr, v, u)

positive_weights(gr) ==
  /\ \A u \in 0 .. (gr.n - 1) : vertex_weight(gr, u) > 0
  /\ \A u \in 0 .. (gr.n - 1) : \A j \in 0 .. (degree(gr, u) - 1) : edge_weight(gr, u, j) > 0

two_equal_components(gr) ==
  /\ positive_weights(gr)
  /\ Cardinality(components(gr)) = 2
  /\ symmetric(gr)
  /\ \A A, B \in components(gr) : set_weight(gr, A) = set_weight(gr, B)

\* C9: a graph of exactly two connected components of equal vertex weight,
\* with positive weights, is cut with k = 2 at cut 0, each component whole in
\* one part and both parts used
C9_TwoComponents ==
  (Done /\ nparts = 2 /\ two_equal_components(g)) =>
     /\ cut = 0
     /\ \A A \in components(g) : \A u, v \in A : At(part, u) = At(part, v)
     /\ parts_used(part) = {0, 1}

C9_Witness ==
  /\ Done /\ nparts = 2 /\ two_equal_components(g)
  /\ levels # <<>> /\ g.adjwgt # <<>>

C9_WitnessSmall ==
  /\ Done /\ nparts = 2 /\ two_equal_components(g)
  /\ g.n = 4 /\ g.vwgt # <<>> /\ At(part, 0) # At(part, 1)

nonnegative_vertex_weights(gr) ==
  \A u \in 0 .. (gr.n - 1) : vertex_weight(gr, u) >= 0

nonnegative_weights(gr) ==
  /\ \A u \in 0 .. (gr.n - 1) : vertex_weight(gr, u) >= 0
  /\ \A u \in 0 .. (gr.n - 1) : \A j \in 0 .. (degree(gr, u) - 1) : edge_weight(gr, u, j) >= 0

in_fm_refine(p) == p \in {"fm_loop", "fm_pass", "fm_return"}

\* C4: on a symmetric graph with non-negative weights and k >= 2, no step of
\* fm_refine (a committed move in particular) increases the edge cut, and the
\* cut stays at or below the cut of the partition fm_refine was called with
C4_CutNeverIncreases ==
  [][(in_fm_refine(pc') /\ fine' = fine /\ nparts >= 2) =>
       \/ /\ edge_cut(fine', part') <= edge_cut(fine, part)
          /\ edge_cut(fine', part') <= edge_cut(fine', part_in')
       \/ ~nonnegative_weights(fine)
       \/ ~symmetric(fine)]_vars

C4_Witness ==
  /\ pc = "fm_return" /\ nparts >= 2 /\ pass = 2 /\ g.adjwgt # <<>>
  /\ edge_cut(fine, part) < edge_cut(fine, part_in)

\* the weight of the vertices p assigns to part t
weight_of_part(gr, p, t) ==
  SumRange([u \in 0 .. (gr.n - 1) |-> IF At(p, u) = t THEN vertex_weight(gr, u) ELSE 0],
           0, gr.n)

\* ceil(total * 1.05 / k): the least c with 20 k c >= 21 total
W_cap(gr, k) ==
  LET total == total_vertex_weight(gr)
  IN  CHOOSE c \in 0 .. (2 * total + 1) :
        20 * k * c >= 21 * total /\ 20 * k * (c - 1) < 21 * total

\* C5: during fm_refine (non-negative vertex weights) a part at or below
\* W_cap = ceil(total * 1.05 / k) at the call stays at or below it; a part
\* that received a vertex in the running pass is at or below W_cap; and the
\* part weights tracked in a pass are the true weights of the parts
C5_BalanceCap ==
  (in_fm_refine(pc) /\ nparts >= 2 /\ nonnegative_weights(fine)) =>
     /\ \A t \in 0 .. (nparts - 1) :
          weight_of_part(fine, part_in, t) <= W_cap(fine, nparts)
            => weight_of_part(fine, part, t) <= W_cap(fine, nparts)
     /\ pc = "fm_pass" =>
          /\ \A u \in locked : weight_of_part(fine, part, At(part, u)) <= W_cap(fine, nparts)
          /\ \A t \in 0 .. (nparts - 1) :
               At(part_weight, t) = weight_of_part(fine, part, t)

\* a pass has moved a vertex although some part was over the cap at the call
C5_Witness ==
  /\ pc = "fm_pass" /\ locked # {} /\ nparts = 3
  /\ \E t \in 0 .. (nparts - 1) :
       weight_of_part(fine, part_in, t) > W_cap(fine, nparts)
  /\ \E u \in locked :
       weight_of_part(fine, part, At(part, u)) = W_cap(fine, nparts)

\* C6: a Graph value only exists when the array lengths agree: xadj has n + 1
\* elements, adjncy has xadj[n] elements, adjwgt is empty or as long as
\* adjncy, vwgt is empty or has n elements; a disagreement ends in the
\* assertion failure instead
C6_LengthsChecked ==
  pc = "Graph" =>
     /\ Len(g.xadj) = g.n + 1
     /\ Len(g.adjncy) = At(g.xadj, g.n)
     /\ Len(g.adjwgt) \in {0, Len(g.adjncy)}
     /\ Len(g.vwgt) \in {0, g.n}

\* what the three assertions do establish
C6_AssertedLengths ==
  pc = "Graph" =>
     /\ Len(g.xadj) = g.n + 1
     /\ Len(g.adjwgt) \in {0, Len(g.adjncy)}
     /\ Len(g.vwgt) \in {0, g.n}

\* the permutations of the set S, as sequences
RECURSIVE perms(_)
perms(S) ==
  IF S = {} THEN {<<>>}
  ELSE UNION {{<<x>> \o q : q \in perms(S \ {x})} : x \in S}

\* every order in which a HashMap with the entries of m can be drained
drain_orders(m) ==
  {[i \in 1 .. Len(q) |-> <<q[i], m[q[i]]>>] : q \in perms(DOMAIN m)}

\* row c of a CSR graph as (neighbour, weight) pairs
csr_row(gr, c) ==
  [i \in 1 .. degree(gr, c) |-> <<adj(gr, c, i - 1), edge_weight(gr, c, i - 1)>>]

\* the first seed of cands whose grown bisection has the least cut
first_least_cut(gr, cands) ==
  LET cut_of(i) == edge_cut(gr, grow_bisection(gr, cands[i]))
      cuts == [i \in 1 .. Len(cands) |-> cut_of(i)]
      i0 == CHOOSE i \in 1 .. Len(cands) :
              /\ \A j \in 1 .. Len(cands) : cuts[i] <= cuts[j]
              /\ \A j \in 1 .. (i - 1) : cuts[j] > cuts[i]
  IN  cands[i0]

\* C7: partition is deterministic.  Its only free choice is the iteration
\* order of the neighbour maps of build_coarse_graph, and the level pushed by
\* a coarsening step is the same for every hasher seed; each row of the coarse
\* graph is what sorting any drain order of that row's map gives.  The
\* bisection kept by initial_bisection is the one grown from the first seed of
\* least cut.
C7_Deterministic ==
  [][(Len(levels') = Len(levels) + 1 =>
         LET level == levels'[Len(levels')]
             adj_map == accumulate_edges(current, level.cmap, level.nc)
         IN  /\ \A seed \in 0 .. MaxSeed : coarsen_once(current, seed) = level
             /\ \A c \in 0 .. (level.nc - 1) :
                  \A d \in drain_orders(At(adj_map, c)) :
                     sort_by_key(d) = csr_row(level.graph, c))
     /\
     ((pc = "initial_partition" /\ pc' = "fm_refine" /\ nparts = 2 /\ fine'.n >= 2) =>
         part' = grow_bisection(fine', first_least_cut(fine', candidates(fine'))))
    ]_vars

\* a finished 2-way call whose first coarse graph has a row that two hasher
\* seeds drain in different orders
C7_Witness ==
  /\ Done /\ nparts = 2 /\ levels # <<>>
  /\ LET level == levels[1]
         adj_map == accumulate_edges(g, level.cmap, level.nc)
     IN  \E c \in 0 .. (level.nc - 1) : \E s1, s2 \in 0 .. MaxSeed :
            drain(At(adj_map, c), s1) # drain(At(adj_map, c), s2)

\* the graph level i of the stack was built from
level_fine(i) == IF i = 1 THEN g ELSE levels[i - 1].graph

\* the fine vertices mapped to coarse vertex c
constituents(cmap, c) == {u \in 0 .. (Len(cmap) - 1) : At(cmap, u) = c}

lowest(S) == CHOOSE x \in S : \A y \in S : x <= y

\* the positions in u's list that hold a neighbour other than u which no
\* coarse vertex with an ID below c has taken
open_entries(gr, cmap, u, c) ==
  {j \in 0 .. (degree(gr, u) - 1) : adj(gr, u, j) # u /\ At(cmap, adj(gr, u, j)) >= c}

\* the first position of J whose edge weight is the largest in J
first_heaviest(gr, u, J) ==
  CHOOSE j \in J :
    /\ \A i \in J : edge_weight(gr, u, i) <= edge_weight(gr, u, j)
    /\ \A i \in J : i < j => edge_weight(gr, u, i) < edge_weight(gr, u, j)

heavy_edge_matching(gr, cmap, nc) ==
  /\ Len(cmap) = gr.n
  /\ \A u \in 0 .. (gr.n - 1) : At(cmap, u) \in 0 .. (nc - 1)
  /\ \A c \in 0 .. (nc - 1) :
       LET S == constituents(cmap, c)
       IN  /\ Cardinality(S) \in {1, 2}
           /\ \A b \in 0 .. (c - 1) : lowest(constituents(cmap, b)) < lowest(S)
           /\ LET u == lowest(S)
                  J == open_entries(gr, cmap, u, c)
              IN  IF J = {} THEN S = {u}
                  ELSE S = {u, adj(gr, u, first_heaviest(gr, u, J))}

fine_entries(gr, cmap, c, d) ==
  {e \in (0 .. (gr.n - 1)) \X (0 .. Len(gr.adjncy)) :
     /\ e[2] < degree(gr, e[1])
     /\ At(cmap, e[1]) = c
     /\ At(cmap, adj(gr, e[1], e[2])) = d}

RECURSIVE entry_sum(_, _)
entry_sum(gr, E) ==
  IF E = {} THEN 0
  ELSE LET e == CHOOSE x \in E : TRUE
       IN  edge_weight(gr, e[1], e[2]) + entry_sum(gr, E \ {e})

well_formed(gr) ==
  /\ Len(gr.xadj) = gr.n + 1
  /\ At(gr.xadj, 0) = 0
  /\ Len(gr.adjncy) = At(gr.xadj, gr.n)
  /\ Len(gr.adjwgt) = Len(gr.adjncy)
  /\ Len(gr.vwgt) = gr.n

coarse_graph_of(gr, lev) ==
  LET cg == lev.graph
      C == 0 .. (lev.nc - 1)
  IN  /\ cg.n = lev.nc
      /\ well_formed(cg)
      /\ \A c \in C : At(cg.vwgt, c) = set_weight(gr, constituents(lev.cmap, c))
      /\ total_vertex_weight(cg) = total_vertex_weight(gr)
      /\ \A c \in C : \A d \in C \ {c} :
           LET E == fine_entries(gr, lev.cmap, c, d)
           IN  /\ entries_count(cg, c, d) = (IF E = {} THEN 0 ELSE 1)
               /\ E # {} => entries_weight(cg, c, d) = entry_sum(gr, E)
      /\ \A c \in C : entries_count(cg, c, c) = 0
      /\ \A c \in C : \A j \in 0 .. (degree(cg, c) - 2) : adj(cg, c, j) < adj(cg, c, j + 1)

\* C11: every level's coarse graph is built from its fine graph and cmap as
\* stated: a coarse vertex weighs the sum of its constituents (total vertex
\* weight is conserved); for distinct coarse vertices c, d the entry c -> d
\* exists exactly when some fine entry runs from c's constituents to d's, and
\* weighs the sum of all of them; there is no self-loop and every neighbour
\* list is strictly ascending
C11_CoarseGraph ==
  \A i \in 1 .. Len(levels) : coarse_graph_of(level_fine(i), levels[i])

\* a returned call with two levels, whose first level merges several fine
\* entries of different weight into one coarse entry, drops a fine edge inside
\* a coarse vertex, and has a coarse vertex with two neighbours
C11_Witness ==
  /\ pc = "coarsen_return" /\ Len(levels) = 2 /\ g.adjwgt # <<>>
  /\ LET lev == levels[1]
         C == 0 .. (lev.nc - 1)
     IN  /\ \E c, d \in C :
               /\ c # d
               /\ \E e1, e2 \in fine_entries(g, lev.cmap, c, d) :
                     edge_weight(g, e1[1], e1[2]) # edge_weight(g, e2[1], e2[2])
         /\ \E c \in C : fine_entries(g, lev.cmap, c, c) # {}
         /\ \E c \in C : degree(lev.graph, c) >= 2

\* the coarsest graph of the call and the partition Phase 2 computes on it
coarsest_graph == IF levels = <<>> THEN g ELSE levels[Len(levels)].graph

in_uncoarsening(p) == p \in {"fm_refine", "fm_loop", "fm_pass", "fm_return"}

\* C12: on a symmetric input with non-negative weights the edge cut never
\* increases from the initial partition of the coarsest graph to the result:
\* a projection through a level keeps the edge cut and every part's vertex
\* weight exactly, no step of a refinement raises the cut, and the returned
\* cut is at most the cut of the initial partition on the coarsest graph
C12_UncoarseningMonotone ==
  [][\/ /\ (pc = "fm_return" /\ pc' = "fm_refine") =>
              /\ edge_cut(fine', part') = edge_cut(fine, part)
              /\ \A t \in 0 .. (nparts - 1) :
                    weight_of_part(fine', part', t) = weight_of_part(fine, part, t)
        /\ (in_uncoarsening(pc) /\ in_uncoarsening(pc')) =>
              edge_cut(fine', part') <= edge_cut(fine, part)
        /\ (pc = "fm_return" /\ pc' = "done") =>
              /\ cut' = edge_cut(fine, part)
              /\ cut' <= edge_cut(coarsest_graph,
                                  initial_partition(coarsest_graph, nparts))
     \/ ~nonnegative_weights(g)
     \/ ~symmetric(g)
    ]_vars

\* a finished call that projected through two levels and returns a smaller
\* cut than its initial partition had on the coarsest graph
C12_Witness ==
  /\ Done /\ Len(levels) >= 2 /\ cut > 0
  /\ cut < edge_cut(coarsest_graph, initial_partition(coarsest_graph, nparts))

\* the stack is finest to coarsest: level i was built from the graph below
\* it, has a cmap over that graph's vertices and strictly fewer vertices
levels_shrink ==
  \A i \in 1 .. Len(levels) :
     /\ Len(levels[i].cmap) = level_fine(i).n
     /\ i > 1 => Len(levels[i].cmap) = levels[i - 1].nc
     /\ levels[i].nc < level_fine(i).n
     /\ levels[i].graph.n = levels[i].nc

coarsen_returned(p) == p \in {"initial_partition", "coarsen_return"}

outside_part0 == (0 .. (g.n - 1)) \ grow.in_part0

\* the vertex grow_bisection is to move next: of greatest gain among those
\* outside part 0, the lowest index among equals
greatest_gain(u) ==
  /\ u \in outside_part0
  /\ \A v \in outside_part0 :
        /\ gain_to_part0(g, grow.in_part0, v) <= gain_to_part0(g, grow.in_part0, u)
        /\ v < u => gain_to_part0(g, grow.in_part0, v) < gain_to_part0(g, grow.in_part0, u)

growth_steps ==
  /\ (pc = "grow_bisection" /\ pc' = "grow_loop") =>
        \E s \in 0 .. (g.n - 1) :
           /\ grow'.in_part0 = {s}
           /\ grow'.weight0 = vertex_weight(g, s)
  /\ pc = "grow_loop" =>
        /\ pc' = "grow_return" <=>
              (grow.weight0 >= grow_target(g) \/ outside_part0 = {})
        /\ pc' = "grow_loop" =>
              \E u \in outside_part0 :
                 /\ greatest_gain(u)
                 /\ grow'.in_part0 = grow.in_part0 \cup {u}
                 /\ grow'.weight0 = grow.weight0 + vertex_weight(g, u)
                 /\ grow.weight0 < grow_target(g)

growth_result ==
  /\ pc \in {"grow_loop", "grow_return"} =>
        /\ grow.weight0 = set_weight(g, grow.in_part0)
        /\ \A u \in 0 .. (g.n - 1) : At(grow.part, u) = (IF u \in grow.in_part0 THEN 0 ELSE 1)
  /\ pc = "grow_return" =>
        /\ part = grow.part
        /\ grow.weight0 >= grow_target(g)

\* C14: greedy growth from a seed s starts part 0 as {s}; every step moves the
\* vertex outside part 0 of greatest gain, the lowest index among equals,
\* whatever the sign of the gains; it stops exactly when part 0 weighs at
\* least floor(total_weight / 2) or no vertex is left outside, so the
\* returned part 0 weighs at least the target and weighed less before its
\* last vertex
C14_GreedyGrowth ==
  /\ [](nonnegative_vertex_weights(g) => growth_result)
  /\ [][nonnegative_vertex_weights(g) => growth_steps]_vars

\* the same on graphs whose edge weights are not negative
C14_NonNegativeGrowth ==
  /\ [](nonnegative_weights(g) => growth_result)
  /\ [][nonnegative_weights(g) => growth_steps]_vars

\* the moves <<u, to>> fm_pass may consider: u unlocked, to another part that
\* u has edge weight to, and room for u in to under the cap
fm_candidates ==
  {m \in (0 .. (fine.n - 1)) \X (0 .. (nparts - 1)) :
     /\ m[1] \notin locked
     /\ m[2] # At(part, m[1])
     /\ ext_weight(fine, part, m[1], m[2]) > 0
     /\ At(part_weight, m[2]) + vertex_weight(fine, m[1]) <= max_part_weight}

move_gain(m) == ext_weight(fine, part, m[1], m[2]) - int_weight(fine, part, m[1])

\* m has the greatest gain of the candidates C, and of those the least u,
\* then the least to
first_best(C, m) ==
  /\ m \in C
  /\ \A o \in C :
        \/ move_gain(o) < move_gain(m)
        \/ /\ move_gain(o) = move_gain(m)
           /\ (m[1] < o[1] \/ (m[1] = o[1] /\ m[2] <= o[2]))

fm_pass_step ==
  pc = "fm_pass" =>
     LET C == fm_candidates
     IN  /\ pc' = "fm_pass" <=> (\E m \in C : move_gain(m) > 0)
         /\ pc' = "fm_pass" =>
               \E m \in C :
                  /\ first_best(C, m)
                  /\ move_gain(m) > 0
                  /\ part' = [part EXCEPT ![m[1] + 1] = m[2]]
                  /\ locked' = locked \cup {m[1]}
                  /\ improved' /\ pass' = pass
         /\ pc' # "fm_pass" =>
               /\ part' = part /\ pass' = pass + 1
               /\ pc' = (IF improved THEN "fm_loop" ELSE "fm_return")

fm_loop_step ==
  pc = "fm_loop" =>
     /\ pc' = "fm_pass" <=> pass < max_passes
     /\ pc' = "fm_pass" => (locked' = {} /\ ~improved')
     /\ pc' # "fm_pass" => pc' = "fm_return"
     /\ part' = part /\ pass' = pass

\* C15: in every iteration of a pass the move fm_pass commits is the one of
\* greatest gain ext_to(u) - int(u) among the unlocked u and the targets
\* to # part[u] with ext_to(u) > 0 and part_weight[to] + vertex_weight(u)
\* within the cap, the least u and then the least to among equals; it is
\* committed only when that gain is positive and locks u, otherwise the pass
\* ends; fm_refine runs at most max_passes passes and returns after the first
\* pass without a move
C15_MoveSelection ==
  /\ []((in_fm_refine(pc) /\ nonnegative_weights(fine)) =>
           /\ pass <= max_passes
           /\ pc = "fm_pass" => (pass < max_passes /\ (improved <=> locked # {})))
  /\ [][nonnegative_weights(fine) => (fm_pass_step /\ fm_loop_step)]_vars

\* in a pass that has made a move, two moves of different vertices share the
\* greatest gain, which is positive, and another candidate has no gain
C15_Witness ==
  /\ pc = "fm_pass" /\ locked # {}
  /\ \E m, o \in fm_candidates :
        /\ first_best(fm_candidates, m) /\ move_gain(m) > 0
        /\ o[1] # m[1] /\ move_gain(o) = move_gain(m)
  /\ \E o \in fm_candidates : ~first_best(fm_candidates, o) /\ move_gain(o) <= 0

\* one vertex has two targets of the same greatest gain
C15_WitnessTargets ==
  /\ pc = "fm_pass"
  /\ \E m, o \in fm_candidates :
        /\ first_best(fm_candidates, m) /\ move_gain(m) > 0
        /\ o[1] = m[1] /\ o[2] # m[2] /\ move_gain(o) = move_gain(m)

====
